---- MODULE Spec2Model ----
(***************************************************************************)
(* A model of the interactive shell of src/app/main.py: the read loop      *)
(* (Shell.main_loop), the pipeline executor (Shell.run_pipeline) with the  *)
(* external processes and pipes it creates, the builtins, the tokenizer    *)
(* (shlex.split) and the redirection parser (Shell.parse_redirection).     *)
(*                                                                         *)
(* Text is modelled character by character: a line, a segment and a token  *)
(* are sequences of one-character strings.  An optional value (Python's    *)
(* None or a value) is a sequence of length 0 or 1.                        *)
(***************************************************************************)
EXTENDS Integers, Sequences, FiniteSets, TLC

\* ------------------------------------------------------------------ bounds
\* number of input lines the read loop takes
MaxLines == 2
\* capacity of an OS pipe, in bytes (scaled down)
PipeCap == 3
\* longest token list handed to parse_redirection in SpecRedir
MaxArgs == 4
\* number of input lines the read loop takes in SpecHist
MaxHistLines == 3

\* ----------------------------------------------------------- basic helpers
None == <<>>

Some(x) == <<x>>

Range(s) == {s[k] : k \in 1..Len(s)}

Last(s) == s[Len(s)]

Quotes == {"'", "\""}

\* ------------------------------------------------------ shlex.split (posix)
\* One step per character of shlex.read_token; st is the lexer state
\* (" " between tokens, "a" in a word, a quote character, "\\" after a
\* backslash), esc the state to return to after an escape.
RECURSIVE Lex(_, _, _, _, _, _, _)
Lex(s, k, st, esc, tok, quoted, acc) ==
    IF k > Len(s)
    THEN IF st \in Quotes THEN [ok |-> FALSE, toks |-> <<>>]
         ELSE IF st = "\\" THEN [ok |-> FALSE, toks |-> <<>>]
         ELSE IF st = "a" /\ (tok # <<>> \/ quoted)
              THEN [ok |-> TRUE, toks |-> Append(acc, tok)]
         ELSE [ok |-> TRUE, toks |-> acc]
    ELSE LET c == s[k] IN
         IF st = " "
         THEN IF c = " " THEN Lex(s, k + 1, " ", esc, tok, quoted, acc)
              ELSE IF c = "\\" THEN Lex(s, k + 1, "\\", "a", tok, quoted, acc)
              ELSE IF c \in Quotes THEN Lex(s, k + 1, c, esc, tok, TRUE, acc)
              ELSE Lex(s, k + 1, "a", esc, <<c>>, quoted, acc)
         ELSE IF st \in Quotes
         THEN IF c = st THEN Lex(s, k + 1, "a", esc, tok, TRUE, acc)
              ELSE IF c = "\\" /\ st = "\""
                   THEN Lex(s, k + 1, "\\", st, tok, TRUE, acc)
              ELSE Lex(s, k + 1, st, esc, Append(tok, c), TRUE, acc)
         ELSE IF st = "\\"
         THEN IF esc \in Quotes /\ c # "\\" /\ c # esc
              THEN Lex(s, k + 1, esc, esc, tok \o <<"\\", c>>, quoted, acc)
              ELSE Lex(s, k + 1, esc, esc, Append(tok, c), quoted, acc)
         ELSE \* st = "a"
              IF c = " "
              THEN IF tok # <<>> \/ quoted
                   THEN Lex(s, k + 1, " ", esc, <<>>, FALSE, Append(acc, tok))
                   ELSE Lex(s, k + 1, " ", esc, tok, quoted, acc)
              ELSE IF c \in Quotes THEN Lex(s, k + 1, c, esc, tok, TRUE, acc)
              ELSE IF c = "\\" THEN Lex(s, k + 1, "\\", "a", tok, quoted, acc)
              ELSE Lex(s, k + 1, "a", esc, Append(tok, c), quoted, acc)

\* Shell.parse_command: ok = FALSE stands for the ValueError shlex raises
parse_command(command_str) == Lex(command_str, 1, " ", "a", <<>>, FALSE, <<>>)

\* ------------------------------------------- str.split("|") and str.strip()
RECURSIVE SplitPipe(_, _, _, _)
SplitPipe(s, k, cur, acc) ==
    IF k > Len(s) THEN Append(acc, cur)
    ELSE IF s[k] = "|" THEN SplitPipe(s, k + 1, <<>>, Append(acc, cur))
    ELSE SplitPipe(s, k + 1, Append(cur, s[k]), acc)

RECURSIVE LStrip(_)
LStrip(s) == IF s # <<>> /\ s[1] = " " THEN LStrip(Tail(s)) ELSE s

RECURSIVE RStrip(_)
RStrip(s) ==
    IF s # <<>> /\ Last(s) = " " THEN RStrip(SubSeq(s, 1, Len(s) - 1)) ELSE s

Strip(s) == RStrip(LStrip(s))

\* segments = [seg.strip() for seg in command_line.split("|")]
Segments(command_line) ==
    LET raw == SplitPipe(command_line, 1, <<>>, <<>>)
    IN  [k \in 1..Len(raw) |-> Strip(raw[k])]

\* ------------------------------------------------- Shell.parse_redirection
OpOut == {<<">">>, <<"1", ">">>}

OpOutApp == {<<">", ">">>, <<"1", ">", ">">>}

OpErr == {<<"2", ">">>}

OpErrApp == {<<"2", ">", ">">>}

RedirOps == OpOut \cup OpOutApp \cup OpErr \cup OpErrApp

NoMode == "None"

\* RedirLoop with a plausible slip: a stream that already has a target
\* keeps it (the first occurrence wins instead of the last)
RECURSIVE RedirLoopFirstWins(_, _, _)
RedirLoopFirstWins(args, i, r) ==
    IF i > Len(args) THEN r
    ELSE IF args[i] \in OpOut \cup OpOutApp
    THEN IF i + 1 <= Len(args)
         THEN RedirLoopFirstWins(args, i + 2,
                  IF r.stdout_file # None THEN r
                  ELSE [r EXCEPT !.stdout_file = Some(args[i + 1]),
                                 !.stdout_mode = IF args[i] \in OpOut THEN "w" ELSE "a"])
         ELSE RedirLoopFirstWins(args, i + 1, r)
    ELSE IF args[i] \in OpErr \cup OpErrApp
    THEN IF i + 1 <= Len(args)
         THEN RedirLoopFirstWins(args, i + 2,
                  IF r.stderr_file # None THEN r
                  ELSE [r EXCEPT !.stderr_file = Some(args[i + 1]),
                                 !.stderr_mode = IF args[i] \in OpErr THEN "w" ELSE "a"])
         ELSE RedirLoopFirstWins(args, i + 1, r)
    ELSE RedirLoopFirstWins(args, i + 1, [r EXCEPT !.new_args = Append(@, args[i])])

\* the while loop of parse_redirection from index i (1-based) with the
\* accumulated result r
RECURSIVE RedirLoop(_, _, _)
RedirLoop(args, i, r) ==
    IF i > Len(args) THEN r
    ELSE IF args[i] \in OpOut
    THEN IF i + 1 <= Len(args)
         THEN RedirLoop(args, i + 2,
                  [r EXCEPT !.stdout_file = Some(args[i + 1]), !.stdout_mode = "w"])
         ELSE RedirLoop(args, i + 1, r)
    ELSE IF args[i] \in OpOutApp
    THEN IF i + 1 <= Len(args)
         THEN RedirLoop(args, i + 2,
                  [r EXCEPT !.stdout_file = Some(args[i + 1]), !.stdout_mode = "a"])
         ELSE RedirLoop(args, i + 1, r)
    ELSE IF args[i] \in OpErr
    THEN IF i + 1 <= Len(args)
         THEN RedirLoop(args, i + 2,
                  [r EXCEPT !.stderr_file = Some(args[i + 1]), !.stderr_mode = "w"])
         ELSE RedirLoop(args, i + 1, r)
    ELSE IF args[i] \in OpErrApp
    THEN IF i + 1 <= Len(args)
         THEN RedirLoop(args, i + 2,
                  [r EXCEPT !.stderr_file = Some(args[i + 1]), !.stderr_mode = "a"])
         ELSE RedirLoop(args, i + 1, r)
    ELSE RedirLoop(args, i + 1, [r EXCEPT !.new_args = Append(@, args[i])])

parse_redirection(args) ==
    RedirLoop(args, 1, [new_args |-> <<>>,
                        stdout_file |-> None, stdout_mode |-> NoMode,
                        stderr_file |-> None, stderr_mode |-> NoMode])

\* ------------------------------------------------------------ environment
\* Directories that exist; the search path; the user's home directory.
HomeDir == <<"/", "h">>

TmpDir == <<"/", "t">>

BinDir == <<"/", "b">>

UsrDir == <<"/", "u">>

Dirs == {HomeDir, TmpDir, BinDir, UsrDir}

\* os.environ.get("PATH", "").split(os.pathsep)
PathDirs == <<BinDir, UsrDir>>

\* os.path.join(d, n)
Join(d, n) ==
    IF n # <<>> /\ n[1] = "/" THEN n
    ELSE IF d = <<>> THEN n
    ELSE IF Last(d) = "/" THEN d \o n
    ELSE d \o <<"/">> \o n

\* a path as the operating system resolves it from the working directory
Abs(dir, p) == Join(dir, p)

\* the directory part of an absolute path (text before the last "/")
RECURSIVE DirOf(_)
DirOf(p) ==
    IF p = <<>> THEN <<>>
    ELSE IF Last(p) = "/" THEN (IF Len(p) = 1 THEN p ELSE SubSeq(p, 1, Len(p) - 1))
    ELSE DirOf(SubSeq(p, 1, Len(p) - 1))

\* Program files installed in the search path directories.  kind is what
\* the program does once started:
\*   yes   writes to stdout without end
\*   gen   writes more bytes than a pipe holds, then exits
\*   ls    writes one byte, then exits
\*   head  reads one byte of stdin (or end of input), then exits
\*   cat   copies stdin to stdout until end of input, then exits
\*   bad   has the execute bit but cannot be executed (exec fails)
\* /b/ls is a regular file without execute permission; /u/ls is the program.
\* /t/run is a program in a directory that is not in the search path.
\* /b/echo is a program with the name of a builtin.
ProgFiles ==
    {[path |-> Join(BinDir, <<"y", "e", "s">>), exec |-> TRUE, kind |-> "yes"],
     [path |-> Join(BinDir, <<"g", "e", "n">>), exec |-> TRUE, kind |-> "gen"],
     [path |-> Join(BinDir, <<"l", "s">>), exec |-> FALSE, kind |-> "ls"],
     [path |-> Join(UsrDir, <<"l", "s">>), exec |-> TRUE, kind |-> "ls"],
     [path |-> Join(BinDir, <<"h", "e", "a", "d">>), exec |-> TRUE, kind |-> "head"],
     [path |-> Join(BinDir, <<"c", "a", "t">>), exec |-> TRUE, kind |-> "cat"],
     [path |-> Join(UsrDir, <<"c", "a", "t">>), exec |-> TRUE, kind |-> "cat"],
     [path |-> Join(BinDir, <<"b", "a", "d">>), exec |-> TRUE, kind |-> "bad"],
     [path |-> Join(TmpDir, <<"r", "u", "n">>), exec |-> TRUE, kind |-> "ls"],
     [path |-> Join(BinDir, <<"e", "c", "h", "o">>), exec |-> TRUE, kind |-> "ls"]}

ProgKind(path) == (CHOOSE f \in ProgFiles : f.path = path).kind

\* what a program of the given kind has left to do when it starts: bytes to
\* write for yes (-1: no end), gen and ls, lines to read for head
WorkOf(kind) ==
    IF kind = "yes" THEN -1
    ELSE IF kind = "gen" THEN PipeCap + 1
    ELSE IF kind = "ls" THEN 1
    ELSE IF kind = "head" THEN 1
    ELSE 0

\* self.commands_map keys
BuiltinNames ==
    {<<"e", "x", "i", "t">>, <<"e", "c", "h", "o">>, <<"t", "y", "p", "e">>,
     <<"p", "w", "d">>, <<"c", "d">>, <<"h", "i", "s", "t", "o", "r", "y">>}

\* ------------------------------------------------------------ input lines
\* (the empty line)
L_empty == <<>>

\* yes | head
L_yes_head == <<"y", "e", "s", " ", "|", " ", "h", "e", "a", "d">>

\* ls | cat
L_ls_cat == <<"l", "s", " ", "|", " ", "c", "a", "t">>

\* gen | cat | head
L_gen_cat_head == <<"g", "e", "n", " ", "|", " ", "c", "a", "t", " ", "|", " ", "h", "e", "a", "d">>

\* yes | no
L_yes_nosuch == <<"y", "e", "s", " ", "|", " ", "n", "o">>

\* ls | no | cat
L_ls_nosuch_cat == <<"l", "s", " ", "|", " ", "n", "o", " ", "|", " ", "c", "a", "t">>

\* ls | bad
L_ls_bad == <<"l", "s", " ", "|", " ", "b", "a", "d">>

\* ls |
L_ls_pipe == <<"l", "s", " ", "|">>

\* | ls
L_pipe_ls == <<"|", " ", "l", "s">>

\* cd /t |
L_cd_pipe == <<"c", "d", " ", "/", "t", " ", "|">>

\* cd /t || ls
L_cd_pipe_pipe_ls == <<"c", "d", " ", "/", "t", " ", "|", "|", " ", "l", "s">>

\* echo a | cat
L_echo_cat == <<"e", "c", "h", "o", " ", "a", " ", "|", " ", "c", "a", "t">>

\* echo aaaaaaa | cat
L_echobig_cat == <<"e", "c", "h", "o", " ", "a", "a", "a", "a", "a", "a", "a", " ", "|", " ", "c", "a", "t">>

\* gen | pwd
L_gen_pwd == <<"g", "e", "n", " ", "|", " ", "p", "w", "d">>

\* ls | pwd
L_ls_pwd == <<"l", "s", " ", "|", " ", "p", "w", "d">>

\* echo a | echo b
L_echo_echo == <<"e", "c", "h", "o", " ", "a", " ", "|", " ", "e", "c", "h", "o", " ", "b">>

\* exit | cat
L_exit_cat == <<"e", "x", "i", "t", " ", "|", " ", "c", "a", "t">>

\* cd
L_cd == <<"c", "d">>

\* type
L_type == <<"t", "y", "p", "e">>

\* echo "a
L_quote == <<"e", "c", "h", "o", " ", "\"", "a">>

\* echo a > /x/f
L_badredir == <<"e", "c", "h", "o", " ", "a", " ", ">", " ", "/", "x", "/", "f">>

\* no
L_nosuch == <<"n", "o">>

\* exit
L_exit == <<"e", "x", "i", "t">>

\* exit 0
L_exit_0 == <<"e", "x", "i", "t", " ", "0">>

\* exit 1
L_exit_1 == <<"e", "x", "i", "t", " ", "1">>

\* exit abc
L_exit_abc == <<"e", "x", "i", "t", " ", "a", "b", "c">>

\* echo a >
L_echo_dangling == <<"e", "c", "h", "o", " ", "a", " ", ">">>

\* ls 2>
L_ls_dangling == <<"l", "s", " ", "2", ">">>

\* echo a > f
L_echo_to_f == <<"e", "c", "h", "o", " ", "a", " ", ">", " ", "f">>

\* echo b >> f
L_echo_app_f == <<"e", "c", "h", "o", " ", "b", " ", ">", ">", " ", "f">>

\* ls >> f
L_ls_app_f == <<"l", "s", " ", ">", ">", " ", "f">>

\* ls 2> g
L_ls_err_g == <<"l", "s", " ", "2", ">", " ", "g">>

\* echo > f a
L_redir_mid == <<"e", "c", "h", "o", " ", ">", " ", "f", " ", "a">>

\* cd /t
L_cd_t == <<"c", "d", " ", "/", "t">>

\* cd /x
L_cd_x == <<"c", "d", " ", "/", "x">>

\* cd ~
L_cd_home == <<"c", "d", " ", "~">>

\* pwd
L_pwd == <<"p", "w", "d">>

\* type cd
L_type_cd == <<"t", "y", "p", "e", " ", "c", "d">>

\* type ls
L_type_ls == <<"t", "y", "p", "e", " ", "l", "s">>

\* type no
L_type_nosuch == <<"t", "y", "p", "e", " ", "n", "o">>

\* echo "a|b"
L_quoted_pipe == <<"e", "c", "h", "o", " ", "\"", "a", "|", "b", "\"">>

\* ls > f | cat
L_interior_redir == <<"l", "s", " ", ">", " ", "f", " ", "|", " ", "c", "a", "t">>
L_ls_to_f == <<"l", "s", " ", ">", " ", "f">>
L_run == <<"r", "u", "n">>
L_type_echo == <<"t", "y", "p", "e", " ", "e", "c", "h", "o">>
L_hist_a == <<"h", "i", "s", "t", "o", "r", "y", " ", "-", "a", " ", "k">>
L_hist_w == <<"h", "i", "s", "t", "o", "r", "y", " ", "-", "w", " ", "k">>
L_hist_r == <<"h", "i", "s", "t", "o", "r", "y", " ", "-", "r", " ", "k">>
L_hist == <<"h", "i", "s", "t", "o", "r", "y">>
L_hist_1 == <<"h", "i", "s", "t", "o", "r", "y", " ", "1">>
L_hist_a_cat == <<"h", "i", "s", "t", "o", "r", "y", " ", "-", "a", " ", "k", " ", "|", " ", "c", "a", "t">>
L_hist_a_bad == <<"h", "i", "s", "t", "o", "r", "y", " ", "-", "a", " ", "/", "x", "/", "k">>
L_nosuch_to_f == <<"n", "o", " ", ">", " ", "f">>
L_only_redir == <<">", " ", "f">>
L_bad_to_f == <<"b", "a", "d", " ", ">", " ", "f">>
L_cd_to_f == <<"c", "d", " ", ">", " ", "f">>

InputLines ==
    {L_empty, L_yes_head, L_ls_cat, L_gen_cat_head,
     L_yes_nosuch, L_ls_nosuch_cat, L_ls_bad, L_ls_pipe,
     L_pipe_ls, L_cd_pipe, L_cd_pipe_pipe_ls, L_echo_cat,
     L_echobig_cat, L_gen_pwd, L_ls_pwd, L_echo_echo,
     L_exit_cat, L_cd, L_type, L_quote,
     L_badredir, L_nosuch, L_exit, L_exit_0,
     L_exit_1, L_exit_abc, L_echo_dangling, L_ls_dangling,
     L_echo_to_f, L_echo_app_f, L_ls_app_f, L_ls_err_g,
     L_redir_mid, L_cd_t, L_cd_x, L_cd_home,
     L_pwd, L_type_cd, L_type_ls, L_type_nosuch,
     L_quoted_pipe, L_interior_redir,
     L_ls_to_f,
     L_run,
     L_type_echo,
     L_nosuch_to_f,
     L_only_redir,
     L_bad_to_f,
     L_cd_to_f}

\* the lines of the runs that exercise the history commands
HistLines ==
    {L_empty, L_pwd, L_ls_cat, L_exit,
     L_hist_a,
     L_hist_w,
     L_hist_r,
     L_hist,
     L_hist_1,
     L_hist_a_cat,
     L_hist_a_bad}


\* ---------------------------------------------------------------- state
VARIABLES
    pc,               \* where the shell is: "read" (main_loop at input()),
                      \* "stage" (run_pipeline about to run stage i), "wait"
                      \* (the wait loop), "blocked" (stuck in a pipe write),
                      \* "done" (the shell process has ended)
    status,           \* "running", "exited" or "crashed" (uncaught exception)
    exit_code,        \* exit status of the shell process once it has ended
    continue_repl,    \* self.continue_repl
    command_history,  \* self.command_history
    nread,            \* number of lines input() has returned
    cwd,              \* os.getcwd()
    files,            \* data files: path -> sequence of records written
    term,             \* what the shell wrote to the terminal for this line
    command_line,     \* run_pipeline's argument
    i,                \* run_pipeline's stage index (1-based); after the call,
                      \* the stage at which it ended
    prev_output,      \* 0: None, -1: an io.StringIO, q >= 1: read end of pipe q
    processes,        \* run_pipeline's list of started processes (ids)
    stdout_cm,        \* open redirection file of the last stage, or None
    stderr_cm,        \* the same for stderr
    widx,             \* position of the wait loop in processes
    procs,            \* external processes: id -> record
    pipes,            \* OS pipes: id -> [buf, rd, wr, src, line]: bytes held,
                      \* holders of the read and of the write end (0 is the
                      \* shell, p >= 1 process p), producing stage, input line
    ret,              \* how the last run_pipeline call ended
    invoked,          \* stages whose builtin handler was called, in call order
    spawned,          \* stages for which a process was started, in order
    waited,           \* stages whose process proc.wait() has reaped, in order
    opened,           \* redirection files opened by this call, in order
    received,         \* [stage, argv]: the argument lists handed to the commands
    before,           \* the working directory and the files when the line was read
    readline,         \* the readline module: None when absent, else
                      \* Some(its history list)
    last_history_append,
                      \* self.last_history_append
    histfile,         \* the environment variable HISTFILE: None or Some(path)
    open_files,       \* redirection files the shell has opened and not closed
    sys,              \* [stdin, stdout, stderr]: the streams that sys.stdin,
                      \* sys.stdout and sys.stderr are bound to
    pr_args,          \* SpecRedir: the token list given to parse_redirection
    pr_res            \* SpecRedir: None or the result of parse_redirection

vars ==
    <<pc, status, exit_code, continue_repl, command_history, nread, cwd, files,
      term, command_line, i, prev_output, processes, stdout_cm, stderr_cm, widx,
      procs, pipes, ret, invoked, spawned, waited, opened, received, before,
      readline, last_history_append, histfile, open_files, sys, pr_args, pr_res>>

\* --------------------------------------------------- Shell.find_executable
IsFile(fs, path) == (\E f \in ProgFiles : f.path = path) \/ path \in DOMAIN fs

\* os.access(path, os.X_OK): files created by a redirection are not executable
AccessX(path) == \E f \in ProgFiles : f.path = path /\ f.exec

RECURSIVE FindFrom(_, _, _)
FindFrom(fs, command_name, k) ==
    IF k > Len(PathDirs) THEN None
    ELSE LET full_path == Join(PathDirs[k], command_name)
         IN  IF IsFile(fs, full_path) /\ AccessX(full_path)
             THEN Some(full_path)
             ELSE FindFrom(fs, command_name, k + 1)

find_executable(fs, command_name) == FindFrom(fs, command_name, 1)

\* ------------------------------------------------------------------ files
\* open(path, mode) raises OSError unless the directory exists and the path
\* is not itself a directory
CanOpen(path) == DirOf(path) \in Dirs /\ path \notin Dirs

\* open(path, mode) that truncates whatever the mode is
OpenFileTruncates(fs, path, mode) ==
    [p \in DOMAIN fs \cup {path} |-> IF p = path THEN <<>> ELSE fs[p]]

\* the file system after open(path, mode): "w" truncates, "a" keeps
OpenFile(fs, path, mode) ==
    [p \in DOMAIN fs \cup {path} |->
        IF p = path THEN (IF mode = "w" \/ path \notin DOMAIN fs THEN <<>> ELSE fs[path])
        ELSE fs[p]]

WriteFile(fs, path, out) == [fs EXCEPT ![path] = @ \o out]

\* ----------------------------------------------------------------- builtins
\* A handler takes argv and the context c (the working directory, the
\* files, continue_repl, the history and its checkpoint) and returns the
\* context after the call: out collects what it printed to sys.stdout,
\* raised tells that it ended with an exception.
Msg(kind, arg, extra) == [kind |-> kind, arg |-> arg, extra |-> extra]

RECURSIVE JoinSp(_)
JoinSp(toks) ==
    IF toks = <<>> THEN <<>>
    ELSE IF Len(toks) = 1 THEN toks[1]
    ELSE toks[1] \o <<" ">> \o JoinSp(Tail(toks))

execute_exit(args, c) ==
    LET status_code == IF Len(args) > 1 THEN args[2] ELSE <<"0">>
    IN  IF status_code = <<"0">> THEN [c EXCEPT !.cont = FALSE] ELSE c

execute_echo(args, c) ==
    [c EXCEPT !.out = Append(@, Msg("text", JoinSp(Tail(args)), <<>>))]

execute_pwd(args, c) == [c EXCEPT !.out = Append(@, Msg("text", c.cwd, <<>>))]

\* execute_type that asks the resolver before it looks at the builtin table
execute_typeResolverFirst(args, c) ==
    IF Len(args) < 2
    THEN [c EXCEPT !.out = Append(@, Msg("type_missing_argument", <<>>, <<>>)),
                   !.raised = TRUE]
    ELSE LET type_target == args[2]
             path_directory == find_executable(c.fs, type_target)
         IN  IF path_directory # None
             THEN [c EXCEPT !.out = Append(@, Msg("is", type_target, path_directory[1]))]
             ELSE IF type_target \in BuiltinNames
             THEN [c EXCEPT !.out = Append(@, Msg("is_a_shell_builtin", type_target, <<>>))]
             ELSE [c EXCEPT !.out = Append(@, Msg("not_found", type_target, <<>>))]

execute_type(args, c) ==
    IF Len(args) < 2
    THEN [c EXCEPT !.out = Append(@, Msg("type_missing_argument", <<>>, <<>>)),
                   !.raised = TRUE]
    ELSE LET type_target == args[2]
             path_directory == find_executable(c.fs, type_target)
         IN  IF type_target \in BuiltinNames
             THEN [c EXCEPT !.out = Append(@, Msg("is_a_shell_builtin", type_target, <<>>))]
             ELSE IF path_directory = None
             THEN [c EXCEPT !.out = Append(@, Msg("not_found", type_target, <<>>))]
             ELSE [c EXCEPT !.out = Append(@, Msg("is", type_target, path_directory[1]))]

\* os.path.expanduser
expanduser(p) ==
    IF p # <<>> /\ p[1] = "~" /\ (Len(p) = 1 \/ p[2] = "/")
    THEN HomeDir \o Tail(p)
    ELSE p

execute_cd(args, c) ==
    IF Len(args) < 2
    THEN [c EXCEPT !.out = Append(@, Msg("cd_missing_argument", <<>>, <<>>)),
                   !.raised = TRUE]
    ELSE LET cd_target == args[2]
             dest == Abs(c.cwd, expanduser(cd_target))
         IN  IF dest \in Dirs THEN [c EXCEPT !.cwd = dest]
             ELSE IF IsFile(c.fs, dest) THEN [c EXCEPT !.raised = TRUE]
             ELSE [c EXCEPT !.out = Append(@, Msg("cd_no_such_file", cd_target, <<>>))]

\* ------------------------------------------------------------- history
\* The history list the handlers work on: the list of the readline module
\* when there is one, else self.command_history
History(c) == IF c.rl # None THEN c.rl[1] ELSE c.command_history

get_history_length(c) == Len(History(c))

\* the history entries as lines of a file (cmd + "\n")
AsLines(entries) == [k \in 1..Len(entries) |-> Msg("text", entries[k], <<>>)]

\* the lines of a file as history entries; a line that is not plain text
\* (output of a program, a message of the shell) stands for itself
FileLines(content) ==
    [k \in 1..Len(content) |->
        IF content[k].kind = "text" THEN content[k].arg ELSE <<content[k].kind>>]

\* lines 226-243; a file that cannot be read leaves the history as it is
read_history(file_path, c) ==
    LET path == Abs(c.cwd, file_path)
        c1 == IF path \notin DOMAIN c.fs THEN c
              ELSE IF c.rl # None
              THEN [c EXCEPT !.rl = Some(@[1] \o FileLines(c.fs[path]))]
              ELSE [c EXCEPT !.command_history = @ \o FileLines(c.fs[path])]
    IN  [c1 EXCEPT !.last = get_history_length(c1)]

\* lines 245-262; a file that cannot be opened is left alone
write_history(file_path, c) ==
    LET path == Abs(c.cwd, file_path)
        c1 == IF ~CanOpen(path) THEN c
              ELSE [c EXCEPT !.fs = WriteFile(OpenFile(@, path, "w"), path,
                                              AsLines(History(c)))]
    IN  [c1 EXCEPT !.last = get_history_length(c1)]

\* append_history that writes the whole list every time
append_historyWholeList(file_path, c) ==
    LET path == Abs(c.cwd, file_path)
        total == get_history_length(c)
    IN  IF ~CanOpen(path) THEN c
        ELSE [c EXCEPT !.fs = WriteFile(OpenFile(@, path, "a"), path,
                                        AsLines(History(c))),
                       !.last = total]

\* lines 270-292; the checkpoint moves only when the file could be opened
append_history(file_path, c) ==
    LET path == Abs(c.cwd, file_path)
        total == get_history_length(c)
    IN  IF ~CanOpen(path) THEN c
        ELSE [c EXCEPT !.fs = WriteFile(OpenFile(@, path, "a"), path,
                                        AsLines(SubSeq(History(c), c.last + 1, total))),
                       !.last = total]

Digits == <<"0", "1", "2", "3", "4", "5", "6", "7", "8", "9">>

\* str(n) for a natural number
RECURSIVE Dec(_)
Dec(n) == IF n < 10 THEN <<Digits[n + 1]>> ELSE Dec(n \div 10) \o <<Digits[(n % 10) + 1]>>

\* the value of a string of digits; None for any other string
RECURSIVE IntOf(_, _)
IntOf(t, acc) ==
    IF t = <<>> THEN Some(acc)
    ELSE IF \E d \in 1..10 : Digits[d] = t[1]
    THEN IntOf(Tail(t), 10 * acc + (CHOOSE d \in 1..10 : Digits[d] = t[1]) - 1)
    ELSE None

\* int(t): an optional sign and digits; None where int() raises
int(t) ==
    IF t = <<>> THEN None
    ELSE IF t[1] \in {"-", "+"}
    THEN (IF Len(t) = 1 \/ IntOf(Tail(t), 0) = None THEN None
          ELSE IF t[1] = "-" THEN Some(0 - IntOf(Tail(t), 0)[1])
          ELSE IntOf(Tail(t), 0))
    ELSE IntOf(t, 0)

\* lines 294-313: print(f"    {i+1}  {cmd}") for the last n entries, or for all
list_history(n, c) ==
    LET total == get_history_length(c)
        parsed == int(n)
        entry_limiter == IF parsed = None THEN total ELSE parsed[1]
        start_entry == IF total - entry_limiter < 0 THEN 0 ELSE total - entry_limiter
    IN  [c EXCEPT !.out = @ \o
            [k \in 1..(total - start_entry) |->
                Msg("text", <<" ", " ", " ", " ">> \o Dec(start_entry + k)
                            \o <<" ", " ">> \o History(c)[start_entry + k], <<>>)]]

\* lines 206-224
execute_history(args, c) ==
    LET functional_parameter == IF Len(args) >= 2 THEN args[2] ELSE <<>>
        file_path == IF Len(args) >= 3 THEN Some(args[3]) ELSE None
    IN  IF functional_parameter = <<"-", "r">> /\ file_path # None
        THEN read_history(file_path[1], c)
        ELSE IF functional_parameter = <<"-", "w">> /\ file_path # None
        THEN write_history(file_path[1], c)
        ELSE IF functional_parameter = <<"-", "a">> /\ file_path # None
        THEN append_history(file_path[1], c)
        ELSE list_history(functional_parameter, c)

\* the part of the shell's state s that the handlers read and change
Context(s) ==
    [cwd |-> s.cwd, cont |-> s.cont, fs |-> s.files, rl |-> s.readline,
     command_history |-> s.command_history, last |-> s.last_history_append,
     out |-> <<>>, raised |-> FALSE]

\* the shell's state s after a handler has left the context c
WithContext(s, c) ==
    [s EXCEPT !.cwd = c.cwd, !.cont = c.cont, !.files = c.fs, !.readline = c.rl,
              !.command_history = c.command_history,
              !.last_history_append = c.last]

\* self.commands_map[command_keyword](parsed_command)
RunBuiltin(args, s) ==
    LET c == Context(s)
        name == args[1]
    IN  IF name = <<"e", "x", "i", "t">> THEN execute_exit(args, c)
        ELSE IF name = <<"e", "c", "h", "o">> THEN execute_echo(args, c)
        ELSE IF name = <<"t", "y", "p", "e">> THEN execute_type(args, c)
        ELSE IF name = <<"p", "w", "d">> THEN execute_pwd(args, c)
        ELSE IF name = <<"c", "d">> THEN execute_cd(args, c)
        ELSE execute_history(args, c)

\* number of bytes print() writes for one message
MsgBytes(m) ==
    IF m.kind = "text" THEN Len(m.arg) + 1
    ELSE IF m.kind = "is_a_shell_builtin" THEN Len(m.arg) + 20
    ELSE IF m.kind = "not_found" THEN Len(m.arg) + 12
    ELSE IF m.kind = "is" THEN Len(m.arg) + 4 + Len(m.extra) + 1
    ELSE IF m.kind = "cd_no_such_file" THEN Len(m.arg) + 32
    ELSE IF m.kind = "cd_missing_argument" THEN 21
    ELSE 23

RECURSIVE Bytes(_)
Bytes(out) == IF out = <<>> THEN 0 ELSE MsgBytes(out[1]) + Bytes(Tail(out))

\* the messages as entries of the terminal log, on the given stream
OnStream(stream, out) ==
    [k \in 1..Len(out) |-> [stream |-> stream, kind |-> out[k].kind,
                            arg |-> out[k].arg, extra |-> out[k].extra]]

\* ---------------------------------------------------------------- streams
\* A stream object: the kind of object, and the path of its file or the
\* number of its pipe where it has one
Stream(kind, path, pipe) == [kind |-> kind, path |-> path, pipe |-> pipe]

\* the three streams of the terminal the interpreter starts with
Terminal(name) == Stream(name, <<>>, 0)

\* io.StringIO()
StringIO == Stream("StringIO", <<>>, 0)

\* the file object of an open redirection file
FileStream(path) == Stream("file", path, 0)

\* os.fdopen() of one end of pipe q
PipeStream(q) == Stream("pipe", <<>>, q)

\* sys.stdin, sys.stdout and sys.stderr when the interpreter starts
OrigSys ==
    [stdin |-> Terminal("stdin"), stdout |-> Terminal("stdout"),
     stderr |-> Terminal("stderr")]

\* print(..., file=stream) in state s: the messages appear on the terminal,
\* in the file or in the pipe behind the stream; a StringIO keeps them in
\* memory
WriteTo(s, stream, out) ==
    IF stream.kind \in {"stdout", "stderr"}
    THEN [s EXCEPT !.term = @ \o OnStream(stream.kind, out)]
    ELSE IF stream.kind = "file" /\ stream.path \in DOMAIN s.files
    THEN [s EXCEPT !.files = WriteFile(@, stream.path, out)]
    ELSE IF stream.kind = "pipe" /\ stream.pipe \in 1..Len(s.pipes)
    THEN [s EXCEPT !.pipes[stream.pipe].buf =
                       IF @ + Bytes(out) > PipeCap THEN PipeCap ELSE @ + Bytes(out)]
    ELSE s


\* ------------------------------------------------------------------ pipes
\* the pipes once holder h has closed every pipe end it holds
CloseAll(ps, h) ==
    [q \in 1..Len(ps) |-> [ps[q] EXCEPT !.rd = @ \ {h}, !.wr = @ \ {h}]]

\* The state of the shell as one record, so that a step of run_pipeline can
\* be computed as a value and then committed.
Cur ==
    [pc |-> pc, status |-> status, exit_code |-> exit_code,
     cont |-> continue_repl, command_history |-> command_history,
     cwd |-> cwd, files |-> files, term |-> term,
     i |-> i, prev_output |-> prev_output, processes |-> processes,
     stdout_cm |-> stdout_cm, stderr_cm |-> stderr_cm, widx |-> widx,
     procs |-> procs, pipes |-> pipes, ret |-> ret, invoked |-> invoked,
     spawned |-> spawned, waited |-> waited, opened |-> opened,
     received |-> received,
     readline |-> readline,
     last_history_append |-> last_history_append,
     open_files |-> open_files,
     sys |-> sys,
     end |-> "next"]

Commit(s) ==
    /\ pc' = s.pc /\ status' = s.status /\ exit_code' = s.exit_code
    /\ continue_repl' = s.cont /\ command_history' = s.command_history
    /\ cwd' = s.cwd /\ files' = s.files
    /\ term' = s.term /\ i' = s.i /\ prev_output' = s.prev_output
    /\ processes' = s.processes /\ stdout_cm' = s.stdout_cm
    /\ stderr_cm' = s.stderr_cm /\ widx' = s.widx /\ procs' = s.procs
    /\ pipes' = s.pipes /\ ret' = s.ret /\ invoked' = s.invoked
    /\ spawned' = s.spawned /\ waited' = s.waited /\ opened' = s.opened
    /\ received' = s.received
    /\ readline' = s.readline
    /\ last_history_append' = s.last_history_append
    /\ open_files' = s.open_files
    /\ sys' = s.sys

\* An uncaught exception leaves run_pipeline, main_loop and main: the
\* interpreter prints a traceback on sys.stderr and the shell process ends with
\* status 1; the operating system closes every descriptor it held.
Raised(s) ==
    [WriteTo(s, s.sys.stderr, <<Msg("traceback", <<>>, <<>>)>>) EXCEPT
              !.pc = "done", !.status = "crashed", !.exit_code = 1,
              !.ret = "raised",
              !.stdout_cm = None, !.stderr_cm = None, !.open_files = {},
              !.pipes = CloseAll(@, 0)]

\* the files that stdout_cm and stderr_cm refer to
RedirectionFiles(s) == Range(s.stdout_cm) \cup Range(s.stderr_cm)

\* lines 514-517: stdout_cm.close() and stderr_cm.close()
Closed(s) == [s EXCEPT !.open_files = @ \ RedirectionFiles(s)]

\* A return statement before line 514 closes nothing: the file objects are
\* dropped with the locals, and a dropped file is closed when the runtime
\* finalizes it.  The language does not say when that is: finalized tells
\* whether it has happened by the time the caller goes on.
Dropped(s, finalized) == IF finalized THEN Closed(s) ELSE s

\* A return statement of run_pipeline: the locals are released.  A Popen
\* object that is released polls its child once: a child that has already
\* exited is reaped, one that is still running stays unreaped and its Popen
\* object, with the read end of its stdout pipe, is kept alive.  Every
\* other pipe end that only the locals referred to is closed.  (The
\* redirection files are dealt with by Closed and Dropped.)
Returned(s, how) ==
    LET mine(p) == \E k \in 1..Len(s.processes) : s.processes[k] = p
        polled == [p \in 1..Len(s.procs) |->
                      IF mine(p) /\ s.procs[p].st = "exited"
                      THEN [s.procs[p] EXCEPT !.st = "reaped"]
                      ELSE s.procs[p]]
        alive(q) == \E p \in 1..Len(polled) :
                        polled[p].st = "running" /\ polled[p].out_pipe = q
        released == [q \in 1..Len(s.pipes) |->
                        IF alive(q) THEN [s.pipes[q] EXCEPT !.wr = @ \ {0}]
                        ELSE [s.pipes[q] EXCEPT !.rd = @ \ {0}, !.wr = @ \ {0}]]
        allgone == \A p \in 1..Len(polled) : polled[p].st = "reaped"
    IN  [s EXCEPT !.pc = "read", !.ret = how, !.prev_output = 0,
                  !.processes = <<>>, !.widx = 0,
                  !.stdout_cm = None, !.stderr_cm = None,
                  !.procs = IF allgone THEN <<>> ELSE polled,
                  !.pipes = IF allgone THEN <<>> ELSE released]

\* ---------------------------------------------- run_pipeline: one stage
\* lines 421-428: the redirection files of the last stage are opened
OpenRedirections(s, r) ==
    LET wantOut == r.stdout_file # None /\ r.stdout_file[1] # <<>>
        wantErr == r.stderr_file # None /\ r.stderr_file[1] # <<>>
        outPath == Abs(s.cwd, r.stdout_file[1])
        errPath == Abs(s.cwd, r.stderr_file[1])
        s1 == IF ~wantOut THEN s
              ELSE IF ~CanOpen(outPath) THEN [s EXCEPT !.end = "raise"]
              ELSE [s EXCEPT !.files = OpenFile(@, outPath, r.stdout_mode),
                             !.stdout_cm = Some(outPath),
                             !.open_files = @ \cup {outPath},
                             !.opened = Append(@, outPath)]
    IN  IF s1.end = "raise" \/ ~wantErr THEN s1
        ELSE IF ~CanOpen(errPath) THEN [s1 EXCEPT !.end = "raise"]
        ELSE [s1 EXCEPT !.files = OpenFile(@, errPath, r.stderr_mode),
                        !.stderr_cm = Some(errPath),
                        !.open_files = @ \cup {errPath},
                        !.opened = Append(@, errPath)]

\* a finally clause that leaves the streams as the try block bound them
FinallyKeepsBinding(s, orig) == s

\* lines 456-459, the finally clause of the first call: sys.stdin,
\* sys.stdout and sys.stderr are bound to what they were before the try
Finally(s, orig) == [s EXCEPT !.sys = orig]

\* lines 434-480: a builtin stage
BuiltinStage(s, argv, is_last, segs) ==
    LET input_stream == IF s.prev_output = -1 THEN StringIO
                        ELSE PipeStream(s.prev_output)
        output_stream == IF ~is_last THEN StringIO
                         ELSE IF s.stdout_cm # None THEN FileStream(s.stdout_cm[1])
                         ELSE s.sys.stdout
        error_stream == IF is_last /\ s.stderr_cm # None
                        THEN FileStream(s.stderr_cm[1])
                        ELSE s.sys.stderr
        orig == s.sys
        \* lines 445-454: the streams are bound for the call
        bound == [s EXCEPT !.sys = [stdin |-> IF s.prev_output # 0 THEN input_stream
                                              ELSE @.stdin,
                                    stdout |-> output_stream,
                                    stderr |-> error_stream]]
        \* first call (line 455): what the handler prints goes to sys.stdout
        r1 == RunBuiltin(argv, bound)
        ran == WriteTo([WithContext(bound, r1) EXCEPT
                            !.invoked = Append(@, s.i),
                            !.received = Append(@, [stage |-> s.i, argv |-> argv])],
                       bound.sys.stdout, r1.out)
        s1 == Finally(ran, orig)
    IN  IF r1.raised THEN [s1 EXCEPT !.end = "raise"]
        ELSE IF is_last THEN [s1 EXCEPT !.end = "wait"]
        ELSE
          LET next_cmd == parse_command(segs[s.i + 1])
              next_is_external ==
                  next_cmd.toks # <<>> /\ next_cmd.toks[1] \notin BuiltinNames
              \* lines 468-471: a new pipe; sys.stdout is bound to its write end
              q == Len(s.pipes) + 1
              orig_stdout == s1.sys.stdout
              bound2 == [s1 EXCEPT !.pipes = Append(@, [buf |-> 0, rd |-> {0},
                                                        wr |-> {0}, src |-> s.i,
                                                        line |-> nread]),
                                   !.sys.stdout = PipeStream(q)]
              \* second call (line 473)
              r2 == RunBuiltin(argv, bound2)
              s2 == [WithContext(bound2, r2) EXCEPT
                               !.invoked = Append(@, s.i),
                               !.received = Append(@, [stage |-> s.i, argv |-> argv])]
          IN  IF ~next_cmd.ok THEN [s1 EXCEPT !.end = "raise"]
              ELSE IF ~next_is_external THEN [s1 EXCEPT !.prev_output = -1]
              ELSE IF Bytes(r2.out) > PipeCap
              THEN \* the write to the pipe nobody reads yet never returns:
                   \* the shell stays inside the handler's print()
                   [s2 EXCEPT !.pipes[q].buf = PipeCap, !.end = "blocked"]
              ELSE \* lines 474-476: sys.stdout is bound back, wfile is closed
                   LET s3 == [WriteTo(s2, s2.sys.stdout, r2.out) EXCEPT
                                 !.pipes[q].wr = {},
                                 !.sys.stdout = orig_stdout]
                   IN  IF r2.raised THEN [s3 EXCEPT !.end = "raise"]
                       ELSE [s3 EXCEPT !.prev_output = q]

\* subprocess._cleanup(), run by every Popen(): children kept alive by an
\* earlier return that have exited since are reaped and their pipes closed
Cleanup(s) ==
    LET orphan(p) == \A k \in 1..Len(s.processes) : s.processes[k] # p
        gone(p) == orphan(p) /\ s.procs[p].st = "exited"
    IN  [s EXCEPT !.procs = [p \in 1..Len(s.procs) |->
                                IF gone(p) THEN [s.procs[p] EXCEPT !.st = "reaped"]
                                ELSE s.procs[p]],
                  !.pipes = [q \in 1..Len(s.pipes) |->
                                IF \E p \in 1..Len(s.procs) :
                                       gone(p) /\ s.procs[p].out_pipe = q
                                THEN [s.pipes[q] EXCEPT !.rd = @ \ {0}]
                                ELSE s.pipes[q]]]

\* lines 482-511: an external stage
ExternalStage(s, argv, is_last) ==
    LET command_keyword == argv[1]
        path_directory == find_executable(s.files, command_keyword)
    IN  IF path_directory = None
        THEN [WriteTo(s, s.sys.stdout,
                      <<Msg("command_not_found", command_keyword, <<>>)>>)
                 EXCEPT !.end = "return_notfound"]
        ELSE
          LET c == Cleanup(s)
              kind == ProgKind(path_directory[1])
              pid == Len(c.procs) + 1
              q == Len(c.pipes) + 1
              proc == [kind |-> kind, stage |-> s.i, line |-> nread,
                       in_pipe |-> IF s.prev_output >= 1 THEN s.prev_output ELSE 0,
                       out_pipe |-> IF is_last THEN 0 ELSE q,
                       out_file |-> IF is_last THEN s.stdout_cm ELSE None,
                       st |-> "running", left |-> WorkOf(kind), hold |-> 0]
              wired == [k \in 1..Len(c.pipes) |->
                           IF k = proc.in_pipe THEN [c.pipes[k] EXCEPT !.rd = @ \cup {pid}]
                           ELSE c.pipes[k]]
          IN  IF kind = "bad" \/ s.prev_output = -1
              THEN \* Popen raises: "Invalid command", return (lines 509-511)
                   [WriteTo(c, c.sys.stdout, <<Msg("invalid_command", <<>>, <<>>)>>)
                       EXCEPT !.end = "return_spawnfail"]
              ELSE [c EXCEPT !.procs = Append(@, proc),
                             !.pipes = IF is_last THEN wired
                                       ELSE Append(wired, [buf |-> 0, rd |-> {0},
                                                           wr |-> {pid}, src |-> s.i,
                                                           line |-> nread]),
                             !.processes = Append(@, pid),
                             !.spawned = Append(@, s.i),
                             !.received = Append(@, [stage |-> s.i, argv |-> argv]),
                             !.prev_output = IF is_last THEN @ ELSE q,
                             !.end = IF is_last THEN "wait" ELSE "next"]

\* lines 419-424: redirections are parsed for the last segment only; the
\* tokens of any other segment are the command's arguments as they are
StageRedirection(toks, is_last) ==
    IF is_last THEN parse_redirection(toks)
    ELSE [new_args |-> toks, stdout_file |-> None, stdout_mode |-> NoMode,
          stderr_file |-> None, stderr_mode |-> NoMode]

\* the body of the for loop over the segments, for stage i
StageOutcome ==
    LET segs == Segments(command_line)
        is_last == (i = Len(segs))
        parsed == parse_command(segs[i])
        r == StageRedirection(parsed.toks, is_last)
        s1 == OpenRedirections(Cur, r)
        argv == r.new_args
    IN  IF ~parsed.ok THEN [Cur EXCEPT !.end = "raise"]
        ELSE IF s1.end = "raise" THEN s1
        ELSE IF argv = <<>> THEN [s1 EXCEPT !.end = "return_empty"]
        ELSE IF argv[1] \in BuiltinNames THEN BuiltinStage(s1, argv, is_last, segs)
        ELSE ExternalStage(s1, argv, is_last)

\* What the outcome of a stage makes of the shell
AfterStage(o, finalized) ==
    IF o.end = "next" THEN [o EXCEPT !.i = @ + 1]
    ELSE IF o.end = "wait" THEN [o EXCEPT !.pc = "wait", !.widx = 1]
    ELSE IF o.end = "blocked" THEN [o EXCEPT !.pc = "blocked"]
    ELSE IF o.end = "raise" THEN Raised(o)
    ELSE IF o.end = "return_empty" THEN Returned(Dropped(o, finalized), "empty")
    ELSE IF o.end = "return_notfound" THEN Returned(Dropped(o, finalized), "notfound")
    ELSE Returned(Dropped(o, finalized), "spawnfail")


\* what main_loop sets when it reads a line and run_pipeline leaves alone
lineVars == <<nread, command_line, before, histfile, pr_args, pr_res>>

\* ------------------------------------------------------------ the shell
NoFiles == [p \in {} |-> <<>>]

\* The shell when main() enters main_loop (lines 520-526), for a readline
\* module rl, a value hf of HISTFILE and files fs: the history file, if one
\* is named, has been read
InitWith(rl, hf, fs) ==
    LET s0 == [cwd |-> HomeDir, cont |-> TRUE, files |-> fs, readline |-> rl,
               command_history |-> <<>>, last_history_append |-> 0]
        c == IF hf = None THEN Context(s0) ELSE read_history(hf[1], Context(s0))
    IN  /\ pc = "read" /\ status = "running" /\ exit_code = 0
        /\ continue_repl = TRUE /\ command_history = c.command_history
        /\ nread = 0 /\ cwd = HomeDir /\ files = fs /\ term = <<>>
        /\ command_line = <<>> /\ i = 0 /\ prev_output = 0 /\ processes = <<>>
        /\ stdout_cm = None /\ stderr_cm = None /\ widx = 0
        /\ procs = <<>> /\ pipes = <<>>
        /\ ret = "none" /\ invoked = <<>> /\ spawned = <<>> /\ waited = <<>>
        /\ opened = <<>> /\ received = <<>> /\ open_files = {}
        /\ sys = OrigSys
        /\ before = [cwd |-> HomeDir, files |-> fs, last |-> c.last]
        /\ readline = c.rl /\ last_history_append = c.last /\ histfile = hf

\* the shell on a terminal with the readline module, HISTFILE not set
ShellInit == InitWith(Some(<<>>), None, NoFiles)

Init == ShellInit /\ pr_args = <<>> /\ pr_res = None

\* input() with the readline module on a terminal adds the line it returns
\* to the module's history, unless it is empty or equal to the last entry
add_history(h, line) ==
    IF line = <<>> \/ (h # <<>> /\ Last(h) = line) THEN h ELSE Append(h, line)

\* main_loop, lines 397-407: input() returns a line, which is added to the
\* history and handed to run_pipeline (lines 410-415 set up its locals)
ReadLineFrom(lines, max) ==
    /\ pc = "read" /\ status = "running" /\ continue_repl
    /\ nread < max
    /\ \E line \in lines :
          /\ readline' = IF readline = None THEN None
                         ELSE Some(add_history(readline[1], line))
          /\ command_history' = Append(command_history, line)
          /\ command_line' = line
    /\ nread' = nread + 1
    /\ before' = [cwd |-> cwd, files |-> files, last |-> last_history_append]
    /\ pc' = "stage" /\ i' = 1 /\ prev_output' = 0 /\ processes' = <<>>
    /\ stdout_cm' = None /\ stderr_cm' = None /\ widx' = 0
    /\ term' = <<>> /\ ret' = "none" /\ invoked' = <<>> /\ spawned' = <<>>
    /\ waited' = <<>> /\ opened' = <<>> /\ received' = <<>>
    /\ UNCHANGED <<status, exit_code, continue_repl, cwd, files, procs, pipes,
                   last_history_append, histfile, open_files, sys, pr_args,
                   pr_res>>

ReadLine == ReadLineFrom(InputLines, MaxLines)

\* main, lines 528-529: main_loop has returned; the entries added since the
\* checkpoint are appended to the history file, if one is named
MainReturns(s) ==
    IF histfile = None THEN s
    ELSE WithContext(s, append_history(histfile[1], Context(s)))

\* the shell process ends: its descriptors are closed
Ended(s, how, code) ==
    [s EXCEPT !.pc = "done", !.status = how, !.exit_code = code,
              !.open_files = {}, !.pipes = CloseAll(@, 0)]

\* main_loop, lines 400-402: end of input; print() and leave the loop
ReadEOF ==
    /\ pc = "read" /\ status = "running" /\ continue_repl
    /\ Commit(Ended(MainReturns(WriteTo(Cur, sys.stdout,
                                         <<Msg("newline", <<>>, <<>>)>>)),
                    "exited", 0))
    /\ UNCHANGED lineVars

\* main_loop, line 399: an interrupt during input() raises KeyboardInterrupt,
\* which nothing catches
ReadInterrupt ==
    /\ pc = "read" /\ status = "running" /\ continue_repl
    /\ Commit(Ended(WriteTo(Cur, sys.stderr, <<Msg("traceback", <<>>, <<>>)>>),
                    "crashed", 130))
    /\ UNCHANGED lineVars

\* main_loop, line 397: the loop condition fails after exit has cleared
\* continue_repl; main returns
LoopExit ==
    /\ pc = "read" /\ status = "running" /\ ~continue_repl
    /\ Commit(Ended(MainReturns(Cur), "exited", 0))
    /\ UNCHANGED lineVars

\* run_pipeline, lines 417-511: one iteration of the loop over the segments
RunStage ==
    /\ pc = "stage"
    /\ LET o == StageOutcome
           early == o.end \in {"return_empty", "return_notfound", "return_spawnfail"}
       IN  \E finalized \in (IF early /\ RedirectionFiles(o) # {} THEN BOOLEAN ELSE {TRUE}) :
               Commit(AfterStage(o, finalized))
    /\ UNCHANGED lineVars

\* run_pipeline, lines 512-513: proc.wait() returns once the process has exited
WaitProc ==
    /\ pc = "wait" /\ widx <= Len(processes)
    /\ procs[processes[widx]].st = "exited"
    /\ Commit([Cur EXCEPT !.procs[processes[widx]].st = "reaped",
                          !.waited = Append(@, procs[processes[widx]].stage),
                          !.widx = @ + 1])
    /\ UNCHANGED lineVars

\* run_pipeline, lines 514-517: the redirection files are closed; return
Finish ==
    /\ pc = "wait" /\ widx > Len(processes)
    /\ Commit(Returned(Closed(Cur), "normal"))
    /\ UNCHANGED lineVars

\* ------------------------------------------------------ external processes
shellVars ==
    <<pc, status, exit_code, continue_repl, command_history, nread, cwd, term,
      command_line, i, prev_output, processes, stdout_cm, stderr_cm, widx,
      ret, invoked, spawned, waited, opened, received, before, readline,
      last_history_append, histfile, open_files, sys, pr_args, pr_res>>

ProcIds == 1..Len(procs)

\* process p has a byte to write, and the write does not block: its stdout
\* is not a pipe, or the pipe has room, or nobody holds the pipe's read end
CanWrite(p) ==
    /\ procs[p].st = "running"
    /\ IF procs[p].kind \in {"yes", "gen", "ls"} THEN procs[p].left # 0
       ELSE procs[p].hold = 1
    /\ IF procs[p].out_pipe = 0 THEN TRUE
       ELSE \/ pipes[procs[p].out_pipe].rd = {}
            \/ pipes[procs[p].out_pipe].buf < PipeCap

\* process p wants a byte of its stdin pipe and the pipe holds one
CanRead(p) ==
    /\ procs[p].st = "running"
    /\ procs[p].kind \in {"head", "cat"} /\ procs[p].hold = 0
    /\ procs[p].kind = "head" => procs[p].left > 0
    /\ procs[p].in_pipe >= 1
    /\ pipes[procs[p].in_pipe].buf > 0

\* end of input: the pipe is empty and nobody holds its write end
AtEOF(p) ==
    /\ procs[p].in_pipe >= 1
    /\ pipes[procs[p].in_pipe].buf = 0
    /\ pipes[procs[p].in_pipe].wr = {}

\* process p has done its work
CanExit(p) ==
    /\ procs[p].st = "running"
    /\ IF procs[p].kind \in {"gen", "ls"} THEN procs[p].left = 0
       ELSE IF procs[p].kind = "head"
            THEN procs[p].hold = 0 /\ (procs[p].left = 0 \/ AtEOF(p))
       ELSE IF procs[p].kind = "cat" THEN procs[p].hold = 0 /\ AtEOF(p)
       ELSE FALSE

AfterWrite(r) ==
    IF r.kind \in {"yes", "gen", "ls"}
    THEN [r EXCEPT !.left = IF @ > 0 THEN @ - 1 ELSE @]
    ELSE [r EXCEPT !.hold = 0]

\* a process writes one byte to its stdout; into a pipe whose read end
\* nobody holds the write fails and the process is killed (SIGPIPE); into a
\* full pipe it blocks
ProcWrite(p) ==
    /\ p \in ProcIds /\ CanWrite(p)
    /\ LET q == procs[p].out_pipe IN
       IF q = 0
       THEN /\ procs' = [procs EXCEPT ![p] = AfterWrite(@)]
            /\ files' = IF procs[p].out_file = None THEN files
                        ELSE WriteFile(files, procs[p].out_file[1],
                                       <<Msg("data", <<>>, <<>>)>>)
            /\ pipes' = pipes
       ELSE IF pipes[q].rd = {}
       THEN /\ procs' = [procs EXCEPT ![p].st = "exited"]
            /\ pipes' = CloseAll(pipes, p)
            /\ files' = files
       ELSE /\ procs' = [procs EXCEPT ![p] = AfterWrite(@)]
            /\ pipes' = [pipes EXCEPT ![q].buf = @ + 1]
            /\ files' = files
    /\ UNCHANGED shellVars

\* head and cat read one byte of their stdin pipe; an empty pipe blocks them
ProcRead(p) ==
    /\ p \in ProcIds /\ CanRead(p)
    /\ pipes' = [pipes EXCEPT ![procs[p].in_pipe].buf = @ - 1]
    /\ procs' = [procs EXCEPT ![p].hold = 1,
                              ![p].left = IF @ > 0 THEN @ - 1 ELSE @]
    /\ UNCHANGED <<files>>
    /\ UNCHANGED shellVars

\* a process exits when its work is done; its descriptors are closed
ProcExit(p) ==
    /\ p \in ProcIds /\ CanExit(p)
    /\ procs' = [procs EXCEPT ![p].st = "exited"]
    /\ pipes' = CloseAll(pipes, p)
    /\ UNCHANGED <<files>>
    /\ UNCHANGED shellVars

Next ==
    \/ ReadLine
    \/ ReadEOF
    \/ ReadInterrupt
    \/ LoopExit
    \/ RunStage
    \/ WaitProc
    \/ Finish
    \/ \E p \in ProcIds : ProcWrite(p)
    \/ \E p \in ProcIds : ProcRead(p)
    \/ \E p \in ProcIds : ProcExit(p)

Spec == Init /\ [][Next]_vars

\* ----------------------------------- parse_redirection as a pure function
Words == {<<"a">>, <<"f">>, <<>>}

Tokens == RedirOps \cup Words

ArgLists == UNION {[1..n -> Tokens] : n \in 0..MaxArgs}

InitRedir == ShellInit /\ pr_args \in ArgLists /\ pr_res = None

ParseRedirection ==
    /\ pr_res = None
    /\ pr_res' = Some(parse_redirection(pr_args))
    /\ UNCHANGED <<pc, status, exit_code, continue_repl, command_history, nread,
                   cwd, files, term, command_line, i, prev_output, processes,
                   stdout_cm, stderr_cm, widx, procs, pipes, ret, invoked,
                   spawned, waited, opened, received, before, readline,
                   last_history_append, histfile, open_files, sys, pr_args>>

NextRedir == ParseRedirection

SpecRedir == InitRedir /\ [][NextRedir]_vars

\* ------------------------------------------------- the history commands
\* The shell with and without the readline module, with and without
\* HISTFILE, with and without a history file left by an earlier session,
\* reading lines that use the history commands.
HistFilePath == Join(HomeDir, <<"k">>)

OldHistoryFile == [p \in {HistFilePath} |-> <<Msg("text", L_pwd, <<>>)>>]

InitHist ==
    /\ \E rl \in {None, Some(<<>>)}, hf \in {None, Some(HistFilePath)},
          fs \in {NoFiles, OldHistoryFile} : InitWith(rl, hf, fs)
    /\ pr_args = <<>> /\ pr_res = None

ReadHistLine == ReadLineFrom(HistLines, MaxHistLines)

NextHist ==
    \/ ReadHistLine
    \/ ReadEOF
    \/ ReadInterrupt
    \/ LoopExit
    \/ RunStage
    \/ WaitProc
    \/ Finish
    \/ \E p \in ProcIds : ProcWrite(p)
    \/ \E p \in ProcIds : ProcRead(p)
    \/ \E p \in ProcIds : ProcExit(p)

SpecHist == InitHist /\ [][NextHist]_vars


\* ===================================================================
\* Properties
\* ===================================================================
\* number of lines the shell wrote to the terminal on the given stream
LinesOn(stream) == Cardinality({k \in 1..Len(term) : term[k].stream = stream})

\* number of terminal lines of the given kind
LinesOfKind(kind) == Cardinality({k \in 1..Len(term) : term[k].kind = kind})

\* stages of the current call that have been started (invoked or spawned)
StartedStages == Range(invoked) \cup Range(spawned)

\* run_pipeline has returned to main_loop from the call for command_line
ReturnedFromCall == pc = "read" /\ ret \in {"normal", "empty", "notfound", "spawnfail"}

\* process p was started by the current (or the last) run_pipeline call
ThisCall(p) == procs[p].line = nread

\* The shell is inside run_pipeline and cannot go on (it is stuck in a pipe
\* write, or in proc.wait() for a process that has not exited), and no
\* process can take a step either: nothing will ever change again.
Hung ==
    /\ \/ pc = "blocked"
       \/ /\ pc = "wait" /\ widx <= Len(processes)
          /\ procs[processes[widx]].st # "exited"
    /\ \A p \in ProcIds : ~(CanWrite(p) \/ CanRead(p) \/ CanExit(p))

\* C1: run_pipeline for "yes | head" (an endless producer into a reader of
\* one line) returns: it never ends up waiting for a process that can no
\* longer move.
C1_UnboundedProducerReturns == command_line = L_yes_head => ~Hung

\* C2: when run_pipeline has returned, by whatever return statement, every
\* process the call started has been reaped, and after a normal completion
\* the processes were waited for in stage order.
C2_AllSpawnedAreWaited ==
    ReturnedFromCall =>
        /\ \A p \in ProcIds : ThisCall(p) => procs[p].st = "reaped"
        /\ ret = "normal" => waited = spawned

\* C3: when run_pipeline has returned because the command of stage i could
\* not be resolved, "command not found" was reported once, no stage beyond
\* i was invoked or spawned, and the stages started before it were waited for.
C3_NotFoundAborts ==
    (pc = "read" /\ ret = "notfound") =>
        /\ LinesOfKind("command_not_found") = 1
        /\ \A k \in StartedStages : k < i
        /\ \A p \in ProcIds : ThisCall(p) => procs[p].st = "reaped"

\* C4: once stage k+1 of the current pipeline has been started, the shell
\* holds neither end of the pipe that carries the output of stage k.
C4_ParentClosesPipeEnds ==
    \A q \in 1..Len(pipes) :
        (status = "running" /\ pipes[q].line = nread
            /\ pipes[q].src + 1 \in StartedStages)
        => 0 \notin pipes[q].rd \cup pipes[q].wr

\* pipelines in which a builtin is next to an external stage
BuiltinAdjacentLines == {L_echo_cat, L_echobig_cat, L_ls_pwd, L_gen_pwd}

\* C5: a pipeline with a builtin next to an external stage always completes,
\* whether the data fits the pipe (echo a | cat, ls | pwd) or not
\* (echo aaaaaaa | cat, gen | pwd).
C5_BuiltinAdjacentCompletes == command_line \in BuiltinAdjacentLines => ~Hung

\* lines with a recognized failure: unterminated quote, type and cd without
\* argument, a redirection target that cannot be opened, an unknown command
FailureLines == {L_quote, L_type, L_cd, L_badredir, L_nosuch}

\* C6: no line ends the shell with an uncaught exception, and once a line
\* with a recognized failure has been run the shell is back at the prompt
\* with exactly one line written to the error stream.
C6_FailuresResumePrompt ==
    /\ ret # "raised"
    /\ (pc = "read" /\ ret # "none" /\ command_line \in FailureLines)
       => LinesOn("stderr") = 1

ExitLines == {L_exit, L_exit_0, L_exit_1, L_exit_abc}

\* the exit status the exit builtin is to produce for a line
ExitCodeFor(line) == IF line \in {L_exit, L_exit_0} THEN 0 ELSE 1

\* C7: once a line running the exit builtin has been executed the loop is
\* stopped (no further line is read), a non-numeric argument has been
\* reported as an error, and the shell ends with the exit code asked for.
C7_ExitTerminates ==
    /\ (pc = "read" /\ ret = "normal" /\ command_line \in ExitLines)
       => /\ ~continue_repl
          /\ command_line = L_exit_abc => LinesOn("stderr") = 1
    /\ (pc = "done" /\ ret = "normal" /\ command_line \in ExitLines)
       => (status = "exited" /\ exit_code = ExitCodeFor(command_line))

\* ---- C8: what parse_redirection is to return
\* every operator is followed by a token that is not an operator
WellFormedArgs(args) ==
    \A k \in 1..Len(args) :
        args[k] \in RedirOps => (k < Len(args) /\ args[k + 1] \notin RedirOps)

\* the tokens that are neither an operator nor the filename after one
RECURSIVE KeptFrom(_, _)
KeptFrom(args, k) ==
    IF k > Len(args) THEN <<>>
    ELSE IF args[k] \notin RedirOps /\ (k = 1 \/ args[k - 1] \notin RedirOps)
    THEN <<args[k]>> \o KeptFrom(args, k + 1)
    ELSE KeptFrom(args, k + 1)

\* position of the last operator among ops, 0 when there is none
LastOp(args, ops) ==
    LET S == {k \in 1..Len(args) : args[k] \in ops}
    IN  IF S = {} THEN 0 ELSE CHOOSE m \in S : \A k \in S : k <= m

TargetOf(args, ops) ==
    IF LastOp(args, ops) = 0 THEN None ELSE Some(args[LastOp(args, ops) + 1])

ModeOf(args, over, app) ==
    IF LastOp(args, over \cup app) = 0 THEN NoMode
    ELSE IF args[LastOp(args, over \cup app)] \in over THEN "w" ELSE "a"

\* C8: for a token list in which every redirection operator is followed by
\* a filename, parse_redirection returns the list without the operators and
\* their filenames, in order, and for each stream the target and mode of
\* the last operator for it (none when there is no operator).
C8_ParseRedirection ==
    (pr_res # None /\ WellFormedArgs(pr_args)) =>
        /\ pr_res[1].new_args = KeptFrom(pr_args, 1)
        /\ pr_res[1].stdout_file = TargetOf(pr_args, OpOut \cup OpOutApp)
        /\ pr_res[1].stdout_mode = ModeOf(pr_args, OpOut, OpOutApp)
        /\ pr_res[1].stderr_file = TargetOf(pr_args, OpErr \cup OpErrApp)
        /\ pr_res[1].stderr_mode = ModeOf(pr_args, OpErr, OpErrApp)

\* a parsed list with two stdout redirections to different files, of which
\* the second, an append, has won
C8_Witness ==
    /\ pr_res # None /\ WellFormedArgs(pr_args) /\ Len(pr_args) = 4
    /\ pr_args[1] \in OpOut /\ pr_args[3] \in OpOutApp
    /\ pr_args[2] # pr_args[4]
    /\ pr_res[1].stdout_file = Some(pr_args[4])
    /\ pr_res[1].stdout_mode = "a"
    /\ pr_res[1].new_args = <<>>

\* stages that end with a redirection operator without a filename
DanglingLines == {L_echo_dangling, L_ls_dangling}

\* C9: for a line whose stage ends with a dangling redirection operator the
\* command is neither invoked nor spawned and no file is opened, and once
\* the line has been run a syntax error has been reported.
C9_DanglingOperatorAborts ==
    command_line \in DanglingLines =>
        /\ invoked = <<>> /\ spawned = <<>> /\ opened = <<>>
        /\ (pc = "read" /\ ret # "none") => LinesOn("stderr") = 1

\* lines with an empty stage: trailing, leading, two adjacent separators
EmptyStageLines == {L_ls_pipe, L_pipe_ls, L_cd_pipe, L_cd_pipe_pipe_ls}

\* C10: for a line with an empty pipeline stage no stage is invoked or
\* spawned, and once the line has been run a syntax error has been reported.
C10_EmptyStageAbandonsLine ==
    command_line \in EmptyStageLines =>
        /\ invoked = <<>> /\ spawned = <<>>
        /\ (pc = "read" /\ ret # "none") => LinesOn("stderr") = 1

\* number of tokens of the line that are exactly the pipe character
PipeTokens(toks) == Cardinality({k \in 1..Len(toks) : toks[k] = <<"|">>})

\* C11: the stages run_pipeline divides a line into are one more than the
\* tokens of the line that are exactly "|": a "|" inside quotes, escaped or
\* inside a longer word starts no stage.
C11_StagesSplitAtPipeTokens ==
    (nread > 0 /\ parse_command(command_line).ok) =>
        Len(Segments(command_line)) =
            1 + PipeTokens(parse_command(command_line).toks)

\* C12: the argument list handed to the command of a stage that is not the
\* last one is the stage's tokens with the redirection operators and their
\* filenames removed; no file is opened for such a stage, and the stdout of
\* a process started for it is the pipe to the next stage.
C12_InteriorRedirectionsRemoved ==
    LET segs == Segments(command_line)
    IN  /\ \A k \in 1..Len(received) :
              received[k].stage < Len(segs) =>
                  received[k].argv =
                      parse_redirection(parse_command(segs[received[k].stage]).toks).new_args
        /\ (pc = "stage" /\ i < Len(segs)) => opened = <<>>
        /\ \A p \in ProcIds :
              (ThisCall(p) /\ procs[p].stage < Len(segs)) =>
                  procs[p].out_pipe # 0 /\ procs[p].out_file = None

\* lines whose single stage writes its stdout to the file f: the line, the
\* mode of the redirection and what the command writes
RedirectedRuns ==
    {[line |-> L_echo_to_f, mode |-> "w", out |-> <<Msg("text", <<"a">>, <<>>)>>],
     [line |-> L_echo_app_f, mode |-> "a", out |-> <<Msg("text", <<"b">>, <<>>)>>],
     [line |-> L_ls_to_f, mode |-> "w", out |-> <<Msg("data", <<>>, <<>>)>>],
     [line |-> L_ls_app_f, mode |-> "a", out |-> <<Msg("data", <<>>, <<>>)>>]}

\* the content of the file at path when the current line was read
ContentBefore(path) ==
    IF path \in DOMAIN before.files THEN before.files[path] ELSE <<>>

\* C13: once a line that redirects the stdout of a builtin or of an external
\* command to a file has been run, the file holds what it held before
\* followed by the command's output if the operator was ">>", and exactly
\* the command's output if it was ">"; so two successive ">>" lines leave
\* the prior content, the first output and the second output, in that order.
C13_AppendAndOverwrite ==
    \A r \in RedirectedRuns :
        (ReturnedFromCall /\ ret = "normal" /\ command_line = r.line) =>
            LET path == Abs(before.cwd, <<"f">>) IN
            /\ path \in DOMAIN files
            /\ files[path] = (IF r.mode = "a" THEN ContentBefore(path) ELSE <<>>) \o r.out

\* two successive ">>" lines, an external command and then a builtin: the
\* file holds the output of the first followed by the output of the second
C13_Witness ==
    /\ ReturnedFromCall /\ ret = "normal" /\ nread = 2
    /\ command_history = <<L_ls_app_f, L_echo_app_f>>
    /\ files[Abs(cwd, <<"f">>)] =
           <<Msg("data", <<>>, <<>>), Msg("text", <<"b">>, <<>>)>>

\* C14: once "cd /x", for a path that does not exist, has been run, the
\* working directory is what it was when the line was read and the one
\* message of the shell is "cd: /x: No such file or directory" on stderr;
\* once "cd" without an argument has been run, the working directory is the
\* home directory.
C14_CdFailureAndHome ==
    /\ (command_line = L_cd_x /\ ret # "none") =>
           /\ cwd = before.cwd
           /\ term = <<[stream |-> "stderr", kind |-> "cd_no_such_file",
                        arg |-> <<"/", "x">>, extra |-> <<>>]>>
    /\ (command_line = L_cd /\ ret # "none") => cwd = HomeDir

\* the name contains a path separator
HasSeparator(name) == \E k \in 1..Len(name) : name[k] = "/"

\* a regular file with execute permission
Executable(fs, path) == IsFile(fs, path) /\ AccessX(path)

RECURSIVE FirstInSearchPath(_, _, _)
FirstInSearchPath(fs, name, k) ==
    IF k > Len(PathDirs) THEN None
    ELSE IF Executable(fs, Join(PathDirs[k], name)) THEN Some(Join(PathDirs[k], name))
    ELSE FirstInSearchPath(fs, name, k + 1)

\* the file a command name stands for under the resolution order of the
\* claim, from working directory dir: the literal path for a name with a
\* separator, else the file of that name in dir, else the first hit in the
\* search path; None when none of them is an executable regular file
ResolveInOrder(dir, fs, name) ==
    IF HasSeparator(name)
    THEN (IF Executable(fs, Abs(dir, name)) THEN Some(Abs(dir, name)) ELSE None)
    ELSE IF Executable(fs, Abs(dir, name)) THEN Some(Abs(dir, name))
    ELSE FirstInSearchPath(fs, name, 1)

\* C15: what the shell reports about a command name agrees with the
\* resolution order literal path, working directory, search path: "is
\* <path>" names the file the order yields, and "not found" and "command
\* not found" are reported only for names the order does not resolve.
C15_ResolutionOrder ==
    \A k \in 1..Len(term) :
        /\ term[k].kind = "is" =>
               ResolveInOrder(cwd, files, term[k].arg) = Some(term[k].extra)
        /\ term[k].kind \in {"not_found", "command_not_found"} =>
               ResolveInOrder(cwd, files, term[k].arg) = None

\* the line "type <name>"
TypeLine(name) == <<"t", "y", "p", "e", " ">> \o name

\* C16: for every name of the builtin table the type handler answers
\* "<name> is a shell builtin" and nothing else, in every state of the file
\* system and also when the search path holds an executable of that name;
\* and that is what the terminal shows when run_pipeline has returned from
\* a line "type <name>".
C16_TypeReportsBuiltin ==
    \A name \in BuiltinNames :
        /\ RunBuiltin(<<<<"t", "y", "p", "e">>, name>>, Cur).out
               = <<Msg("is_a_shell_builtin", name, <<>>)>>
        /\ (command_line = TypeLine(name) /\ ReturnedFromCall) =>
               term = <<[stream |-> "stdout", kind |-> "is_a_shell_builtin",
                         arg |-> name, extra |-> <<>>]>>

\* "type echo" has run while the search path holds an executable echo
C16_Witness ==
    /\ command_line = L_type_echo /\ pc = "read" /\ ret = "normal"
    /\ find_executable(files, <<"e", "c", "h", "o">>) # None
    /\ term = <<[stream |-> "stdout", kind |-> "is_a_shell_builtin",
                 arg |-> <<"e", "c", "h", "o">>, extra |-> <<>>]>>

\* the history list of the shell in the current state
HistoryNow == History(Context(Cur))

\* C17: the checkpoint last_history_append always lies between 0 and the
\* length of the history.  When "history -a k" has run, the file holds what
\* it held before followed by the entries added since the checkpoint, each
\* once and in order, and the checkpoint is the length of the history; so
\* it is after "history -r k" and "history -w k".  An append that could not
\* open its file, and every other line, leaves the checkpoint where it was.
C17_AppendSinceCheckpoint ==
    /\ 0 <= last_history_append /\ last_history_append <= Len(HistoryNow)
    /\ (ReturnedFromCall /\ command_line \in {L_hist_a, L_hist_a_cat}) =>
           /\ HistFilePath \in DOMAIN files
           /\ files[HistFilePath] =
                  ContentBefore(HistFilePath)
                  \o AsLines(SubSeq(HistoryNow, before.last + 1, Len(HistoryNow)))
           /\ last_history_append = Len(HistoryNow)
    /\ (ReturnedFromCall /\ command_line \in {L_hist_r, L_hist_w}) =>
           last_history_append = Len(HistoryNow)
    /\ (ReturnedFromCall /\ command_line = L_hist_a_bad) =>
           files = before.files /\ last_history_append = before.last
    /\ (ReturnedFromCall /\ command_line \in {L_empty, L_pwd, L_ls_cat, L_hist, L_hist_1}) =>
           last_history_append = before.last

\* a session without an earlier history file: "history -w k", "pwd" and
\* "history -a k" leave the three lines in the file, each once
C17_Witness ==
    /\ ReturnedFromCall /\ readline # None /\ histfile = None
    /\ command_history = <<L_hist_w, L_pwd, L_hist_a>>
    /\ before.last = 1 /\ last_history_append = 3
    /\ files[HistFilePath] = AsLines(<<L_hist_w, L_pwd, L_hist_a>>)

\* C18: the read loop ends the shell with status 0 at the end of input; an
\* interrupt during the read never ends the shell (the line is dropped and
\* the prompt shown again); and whenever the loop is back at the prompt the
\* line it read last has been handed to run_pipeline and run.
C18_ReadLoop ==
    /\ LinesOfKind("newline") > 0 => (status = "exited" /\ exit_code = 0)
    /\ ~(status = "crashed" /\ exit_code = 130)
    /\ (pc = "read" /\ nread > 0) => ret # "none"

\* C19: within one call of run_pipeline no stage has its builtin handler
\* called more than once, and when the call has completed normally the
\* handler of every builtin stage has been called.
C19_BuiltinInvokedOnce ==
    /\ \A a, b \in 1..Len(invoked) : invoked[a] = invoked[b] => a = b
    /\ (ReturnedFromCall /\ ret = "normal") =>
           \A k \in 1..Len(Segments(command_line)) :
               (/\ parse_command(Segments(command_line)[k]).ok
                /\ parse_command(Segments(command_line)[k]).toks # <<>>
                /\ parse_command(Segments(command_line)[k]).toks[1] \in BuiltinNames)
               => k \in Range(invoked)

\* C20: when run_pipeline has returned, by whatever return statement, none
\* of the redirection files the call opened is still open.
C20_RedirectionFilesClosed ==
    ReturnedFromCall => open_files \cap Range(opened) = {}

\* C21: whenever the shell is not stuck inside a handler's write, sys.stdin,
\* sys.stdout and sys.stderr are the streams of the terminal it started
\* with, whether the handlers so far returned or raised.  So the output of
\* a later builtin stage appears on the terminal and not in the buffer of
\* the stage before it, a message of a later line appears on the terminal
\* and leaves the files alone, and the traceback of a handler that raised
\* while its stdout was a redirection file appears on the terminal while
\* what the handler printed is in the file.
C21_StreamsRestored ==
    /\ pc # "blocked" => sys = OrigSys
    /\ (ReturnedFromCall /\ command_line = L_echo_echo) =>
           term = <<[stream |-> "stdout", kind |-> "text",
                     arg |-> <<"b">>, extra |-> <<>>]>>
    /\ (ReturnedFromCall /\ command_line = L_nosuch) =>
           /\ term = <<[stream |-> "stdout", kind |-> "command_not_found",
                        arg |-> <<"n", "o">>, extra |-> <<>>]>>
           /\ files = before.files
    /\ (command_line = L_cd_to_f /\ ret = "raised") =>
           /\ term = <<[stream |-> "stderr", kind |-> "traceback",
                        arg |-> <<>>, extra |-> <<>>]>>
           /\ files[Abs(before.cwd, <<"f">>)] =
                  <<Msg("cd_missing_argument", <<>>, <<>>)>>

\* "echo a > f" has run and then "cd > f", whose handler raises with stdout
\* bound to the file: the streams are the terminal's again, the traceback
\* is on the terminal and the handler's message in the file
C21_Witness ==
    /\ command_history = <<L_echo_to_f, L_cd_to_f>>
    /\ ret = "raised" /\ status = "crashed" /\ sys = OrigSys
    /\ invoked = <<1>>
    /\ LinesOn("stderr") = 1 /\ LinesOn("stdout") = 0
    /\ files[Join(HomeDir, <<"f">>)] = <<Msg("cd_missing_argument", <<>>, <<>>)>>

====
